---- MODULE Spec2Model ----
(***************************************************************************)
(* Model of scripts/check_layered_imports.py: a layered-architecture       *)
(* import checker.  One run of main() is a state machine: Configure        *)
(* (argument validation and the forbid mapping), then one step per path    *)
(* that file discovery produces (SkipFile for a filtered path, ScanFile    *)
(* for a yielded one), then Report.                                        *)
(*                                                                         *)
(* Python str values that the code splits, strips or compares are          *)
(* sequences of one-character strings; messages that are only built by     *)
(* concatenation are TLA+ strings.                                         *)
(***************************************************************************)
EXTENDS Integers, Sequences, FiniteSets, TLC

VARIABLES pc, args, package_name, layer_names, forbid, visited, cur,
          all_violations, stdout, status

vars == <<pc, args, package_name, layer_names, forbid, visited, cur,
          all_violations, stdout, status>>

(***************************************************************************)
(* Bounds                                                                  *)
(***************************************************************************)
\* the number of paths file discovery produces in one run
MaxFiles == 2

(***************************************************************************)
(* Python str primitives                                                   *)
(***************************************************************************)
None == "None"

\* the characters of the inputs, in code point order
Alphabet == <<" ", ",", ".", "/", ":", "_",
              "a", "b", "c", "d", "e", "f", "g", "h", "i", "j", "k", "l", "m",
              "n", "o", "p", "q", "r", "s", "t", "u", "v", "w", "x", "y", "z">>

Code(c) == CHOOSE i \in 1..Len(Alphabet) : Alphabet[i] = c

\* a < b for str: the first differing character decides, a proper prefix is smaller
RECURSIVE StrLess(_, _)
StrLess(a, b) ==
    IF b = <<>> THEN FALSE
    ELSE IF a = <<>> THEN TRUE
    ELSE IF Head(a) # Head(b) THEN Code(Head(a)) < Code(Head(b))
    ELSE StrLess(Tail(a), Tail(b))

IsSpace(c) == c = " "

RECURSIVE LStrip(_)
LStrip(s) == IF s # <<>> /\ IsSpace(Head(s)) THEN LStrip(Tail(s)) ELSE s

RECURSIVE RStrip(_)
RStrip(s) ==
    IF s # <<>> /\ IsSpace(s[Len(s)]) THEN RStrip(SubSeq(s, 1, Len(s) - 1)) ELSE s

\* str.strip()
Strip(s) == RStrip(LStrip(s))

\* c in s
Contains(s, c) == \E i \in 1..Len(s) : s[i] = c

\* s.find(c) + 1
IndexOf(s, c) ==
    IF Contains(s, c)
    THEN CHOOSE i \in 1..Len(s) : s[i] = c /\ \A j \in 1..(i - 1) : s[j] # c
    ELSE 0

\* s.split(sep)
RECURSIVE Split(_, _)
Split(s, sep) ==
    LET i == IndexOf(s, sep)
    IN  IF i = 0 THEN <<s>>
        ELSE <<SubSeq(s, 1, i - 1)>> \o Split(SubSeq(s, i + 1, Len(s)), sep)

\* s.split(sep, 1)
SplitOnce(s, sep) ==
    LET i == IndexOf(s, sep)
    IN  IF i = 0 THEN <<s>>
        ELSE <<SubSeq(s, 1, i - 1), SubSeq(s, i + 1, Len(s))>>

\* s.startswith(p)
StartsWith(s, p) == Len(p) <= Len(s) /\ SubSeq(s, 1, Len(p)) = p

\* s.removeprefix(p)
RemovePrefix(s, p) == IF StartsWith(s, p) THEN SubSeq(s, Len(p) + 1, Len(s)) ELSE s

Range(seq) == {seq[i] : i \in 1..Len(seq)}

(***************************************************************************)
(* Names the source spells out                                             *)
(***************************************************************************)
domain  == <<"d", "o", "m", "a", "i", "n">>
dataset == <<"d", "a", "t", "a", "s", "e", "t">>
adaptor == <<"a", "d", "a", "p", "t", "o", "r">>
service == <<"s", "e", "r", "v", "i", "c", "e">>
root    == <<"r", "o", "o", "t">>
other   == <<"o", "t", "h", "e", "r">>
tests   == <<"t", "e", "s", "t", "s">>
pycache == <<"_", "_", "p", "y", "c", "a", "c", "h", "e", "_", "_">>

\* the default of --layers
DefaultLayers == <<"d", "o", "m", "a", "i", "n", ",", "d", "a", "t", "a", "s", "e", "t", ",", "a", "d", "a", "p", "t", "o", "r", ",", "s", "e", "r", "v", "i", "c", "e">>

\* the policy main() falls back to when no --forbid entry is given
DefaultForbid ==
    [k \in {domain, dataset, adaptor} |->
        IF k = domain THEN {dataset, adaptor, service} ELSE
        IF k = dataset THEN {adaptor, service} ELSE {dataset, service}]

(***************************************************************************)
(* _parse_csv, _parse_forbid_entries                                       *)
(***************************************************************************)
StripAll(parts) == [i \in 1..Len(parts) |-> Strip(parts[i])]

NonEmpty(part) == part # <<>>

\* fault injection: the parts are not stripped
_parse_csv_NoStrip(value) == SelectSeq(Split(value, ","), NonEmpty)

_parse_csv(value) == SelectSeq(StripAll(Split(value, ",")), NonEmpty)

EmptyDict == [k \in {} |-> {}]

\* forbid.setdefault(src, set()).update(destinations)
SetDefaultUpdate(d, src, destinations) ==
    [k \in (DOMAIN d) \cup {src} |->
        IF k = src
        THEN (IF src \in DOMAIN d THEN d[src] ELSE {}) \cup destinations
        ELSE d[k]]

\* the body of the loop over entries; the result is the dict, or the ValueError raised
RECURSIVE ForbidLoop(_, _)
ForbidLoop(entries, d) ==
    IF entries = <<>> THEN [raised |-> None, value |-> d]
    ELSE
      LET entry == Head(entries)
      IN  IF ~Contains(entry, ":")
          THEN [raised |-> "ValueError", value |-> "expected 'from:to1,to2'"]
          ELSE
            LET halves       == SplitOnce(entry, ":")
                src          == Strip(halves[1])
                destinations == Range(_parse_csv(halves[2]))
            IN  IF src = <<>>
                THEN [raised |-> "ValueError", value |-> "empty source layer"]
                ELSE IF destinations = {}
                THEN [raised |-> "ValueError", value |-> "empty destinations"]
                ELSE ForbidLoop(Tail(entries), SetDefaultUpdate(d, src, destinations))

\* fault injection: a malformed entry list is swallowed and yields no rules
_parse_forbid_entries_Lenient(entries) ==
    LET r == ForbidLoop(entries, EmptyDict)
    IN  IF r.raised # None THEN [raised |-> None, value |-> EmptyDict] ELSE r

_parse_forbid_entries(entries) == ForbidLoop(entries, EmptyDict)

(***************************************************************************)
(* Paths, _iter_python_files, _file_layer, _imported_layer                 *)
(***************************************************************************)
\* str(args.root); root_dir.name is its last part
RootDir == <<"s", "r", "c", "/", "p", "k", "g">>

Parts(path) == Split(path, "/")

RootName == Parts(RootDir)[Len(Parts(RootDir))]

\* file_path.relative_to(root_dir).parts
RelativeParts(root_dir, file_path) == Parts(RemovePrefix(file_path, root_dir \o <<"/">>))

\* the filter of _iter_python_files: TRUE when the path is yielded
Yielded(path, include_tests) ==
    /\ pycache \notin Range(Parts(path))
    /\ ~(~include_tests /\ tests \in Range(Parts(path)))

\* fault injection: any top-level directory counts as a layer
_file_layer_AnyDirectory(root_dir, file_path, names) ==
    LET relative == RelativeParts(root_dir, file_path)
    IN  IF Len(relative) = 1 THEN root ELSE relative[1]

_file_layer(root_dir, file_path, names) ==
    LET relative == RelativeParts(root_dir, file_path)
    IN  IF Len(relative) = 1 THEN root
        ELSE IF relative[1] \in names THEN relative[1]
        ELSE other

_imported_layer(imported_module, package, names) ==
    IF imported_module = <<>> THEN other
    ELSE IF imported_module = package THEN root
    ELSE LET prefix == package \o <<".">>
         IN  IF ~StartsWith(imported_module, prefix) THEN other
             ELSE LET remainder == RemovePrefix(imported_module, prefix)
                      first     == SplitOnce(remainder, ".")[1]
                  IN  IF first \in names THEN first ELSE root

\* the pseudo-layers _violations_for_file never checks (lines 95 and 122)
Reserved == {root, other}

(***************************************************************************)
(* Syntax trees and _iter_imports                                          *)
(***************************************************************************)
\* an optional str: <<>> is None, <<m>> is the str m
NoModule == <<>>

Module(m) == <<m>>

Import(names, lineno, col_offset) ==
    [type |-> "Import", names |-> names, module |-> NoModule, level |-> 0,
     lineno |-> lineno, col_offset |-> col_offset]

ImportFrom(module, level, names, lineno, col_offset) ==
    [type |-> "ImportFrom", names |-> names, module |-> module, level |-> level,
     lineno |-> lineno, col_offset |-> col_offset]

Expr(lineno, col_offset) ==
    [type |-> "Expr", names |-> <<>>, module |-> NoModule, level |-> 0,
     lineno |-> lineno, col_offset |-> col_offset]

\* fault injection: a relative from-import is resolved against the package
NodeImports_ResolveRelative(node) ==
    IF node.type = "Import"
    THEN [i \in 1..Len(node.names) |-> <<node.names[i], node.lineno, node.col_offset>>]
    ELSE IF node.type = "ImportFrom"
    THEN IF node.module = NoModule THEN <<>>
         ELSE IF node.level > 0
         THEN << <<RootName \o <<".">> \o node.module[1], node.lineno, node.col_offset>> >>
         ELSE << <<node.module[1], node.lineno, node.col_offset>> >>
    ELSE <<>>

\* what one node of the walk yields: (module, lineno, col_offset) triples
NodeImports(node) ==
    IF node.type = "Import"
    THEN [i \in 1..Len(node.names) |-> <<node.names[i], node.lineno, node.col_offset>>]
    ELSE IF node.type = "ImportFrom"
    THEN IF node.module = NoModule THEN <<>>
         ELSE << <<node.module[1], node.lineno, node.col_offset>> >>
    ELSE <<>>

\* tree is the sequence of its nodes in ast.walk order
RECURSIVE _iter_imports(_)
_iter_imports(tree) ==
    IF tree = <<>> THEN <<>>
    ELSE NodeImports(Head(tree)) \o _iter_imports(Tail(tree))

(***************************************************************************)
(* _violations_for_file                                                    *)
(***************************************************************************)
ParseErrorModule == <<"(", "p", "a", "r", "s", "e", " ", "e", "r", "r", "o", "r", ")">>

ForbiddenReason == "Forbidden import direction by configured layer rules."

ImportViolation(file_path, file_layer, imported_module, imported_layer, lineno, col_offset, reason) ==
    [file_path |-> file_path, file_layer |-> file_layer,
     imported_module |-> imported_module, imported_layer |-> imported_layer,
     lineno |-> lineno, col_offset |-> col_offset, reason |-> reason]

\* x or d, for an int-or-None x; 0 stands for both None and 0, which "or" treats alike
OrElse(x, d) == IF x = 0 THEN d ELSE x

\* fault injection: the synthetic violation carries the file's layer as the imported layer
SyntaxViolation_FileLayer(file_path, layer, exc) ==
    ImportViolation(file_path, layer, ParseErrorModule, layer,
                    OrElse(exc.lineno, 1), OrElse(exc.offset, 0),
                    "SyntaxError: " \o exc.msg)

\* the except SyntaxError branch
SyntaxViolation(file_path, layer, exc) ==
    ImportViolation(file_path, layer, ParseErrorModule, other,
                    OrElse(exc.lineno, 1), OrElse(exc.offset, 0),
                    "SyntaxError: " \o exc.msg)

\* fault injection: a layer importing itself is exempted
ForbiddenTargets_SelfExempt(d, layer) ==
    IF layer \in DOMAIN d THEN d[layer] \ {layer} ELSE {}

\* forbid.get(layer), with None as the empty set ("if not forbidden_targets")
ForbiddenTargets(d, layer) == IF layer \in DOMAIN d THEN d[layer] ELSE {}

\* fault injection: the skip of root and other imports is missing
ImportViolations_NoReservedSkip(file_path, layer, imp, package, names, d) ==
    LET imported_layer == _imported_layer(imp[1], package, names)
    IN  IF imported_layer \in ForbiddenTargets(d, layer)
        THEN << ImportViolation(file_path, layer, imp[1], imported_layer,
                                imp[2], imp[3], ForbiddenReason) >>
        ELSE <<>>

\* the body of the loop over _iter_imports(tree) for one import
ImportViolations(file_path, layer, imp, package, names, d) ==
    LET imported_layer == _imported_layer(imp[1], package, names)
    IN  IF imported_layer \in Reserved THEN <<>>
        ELSE IF imported_layer \in ForbiddenTargets(d, layer)
        THEN << ImportViolation(file_path, layer, imp[1], imported_layer,
                                imp[2], imp[3], ForbiddenReason) >>
        ELSE <<>>

RECURSIVE ImportLoop(_, _, _, _, _, _)
ImportLoop(file_path, layer, imports, package, names, d) ==
    IF imports = <<>> THEN <<>>
    ELSE ImportViolations(file_path, layer, Head(imports), package, names, d)
         \o ImportLoop(file_path, layer, Tail(imports), package, names, d)

\* the result is the list returned, or the exception that leaves the function
_violations_for_file(root_dir, file_path, content, package, names, d) ==
    LET layer == _file_layer(root_dir, file_path, names)
    IN  IF layer \in Reserved THEN [raised |-> None, value |-> <<>>]
        ELSE IF content.kind = "undecodable"
        THEN [raised |-> "UnicodeDecodeError", value |-> <<>>]
        ELSE IF content.kind = "syntax_error"
        THEN [raised |-> None, value |-> << SyntaxViolation(file_path, layer, content) >>]
        ELSE [raised |-> None,
              value  |-> ImportLoop(file_path, layer, _iter_imports(content.tree),
                                    package, names, d)]

(***************************************************************************)
(* Reporting: sorted(), _format_violation, the exit status                 *)
(***************************************************************************)
\* key(a) < key(b) for key = (str(file_path), lineno, col_offset)
KeyLess(a, b) ==
    IF a.file_path # b.file_path THEN StrLess(a.file_path, b.file_path)
    ELSE IF a.lineno # b.lineno THEN a.lineno < b.lineno
    ELSE a.col_offset < b.col_offset

\* fault injection: x placed before the first element whose key is not smaller
InsertByKey_BeforeEqual(s, x) ==
    IF \E i \in 1..Len(s) : ~KeyLess(s[i], x)
    THEN LET i == CHOOSE i \in 1..Len(s) :
                     ~KeyLess(s[i], x) /\ \A j \in 1..(i - 1) : KeyLess(s[j], x)
         IN  SubSeq(s, 1, i - 1) \o <<x>> \o SubSeq(s, i, Len(s))
    ELSE Append(s, x)

\* x placed before the first element whose key is greater
InsertByKey(s, x) ==
    IF \E i \in 1..Len(s) : KeyLess(x, s[i])
    THEN LET i == CHOOSE i \in 1..Len(s) :
                     KeyLess(x, s[i]) /\ \A j \in 1..(i - 1) : ~KeyLess(x, s[j])
         IN  SubSeq(s, 1, i - 1) \o <<x>> \o SubSeq(s, i, Len(s))
    ELSE Append(s, x)

\* sorted(violations, key=...): a stable sort
RECURSIVE SortedByKey(_)
SortedByKey(violations) ==
    IF violations = <<>> THEN <<>>
    ELSE InsertByKey(SortedByKey(SubSeq(violations, 1, Len(violations) - 1)),
                     violations[Len(violations)])

_format_violation(violation) ==
    [location |-> [file_path |-> violation.file_path, lineno |-> violation.lineno,
                   col |-> violation.col_offset + 1],
     file_layer |-> violation.file_layer, imported_layer |-> violation.imported_layer,
     imported_module |-> violation.imported_module, reason |-> violation.reason]

OkLine == [text |-> "OK: no layered-import violations found."]

HeaderLine == [text |-> "Layered-import violations:"]

ViolationLine(violation) == [text |-> "- ", violation |-> _format_violation(violation)]

\* raise SystemExit(main()): the status of the process for each way main() ends
ExitStatus(outcome) ==
    IF outcome.kind = "return" THEN outcome.value
    ELSE IF outcome.kind = "SystemExit" THEN 1
    ELSE 1

(***************************************************************************)
(* The inputs of a run: command lines, discovered paths, file contents     *)
(***************************************************************************)
Arguments(root_kind, package, layers, entries, include_tests) ==
    [root_kind |-> root_kind, package_name |-> package, layers |-> layers,
     forbid |-> entries, include_tests |-> include_tests]

\* command lines main() accepts
ValidArgs ==
    {Arguments("dir", <<>>, DefaultLayers, <<>>, t) : t \in BOOLEAN}
    \cup
    {Arguments("dir", p, l, f, FALSE) :
        p \in {<<>>}, l \in {<<"d", "o", "m", "a", "i", "n", ",", " ", "a", "d", "a", "p", "t", "o", "r", ",">>},
        f \in { <<>>,
                << <<"a", "d", "a", "p", "t", "o", "r", ":", "a", "d", "a", "p", "t", "o", "r">> >>,
                << <<"f", "o", "o", ":", "b", "a", "r">> >> }}
    \cup
    {Arguments("dir", p, DefaultLayers, f, FALSE) :
        p \in {<<" ", "p", "k", "g", "x">>},
        f \in { <<>>, << <<"d", "o", "m", "a", "i", "n", ":", " ", "a", "d", "a", "p", "t", "o", "r", " ", ",", "s", "e", "r", "v", "i", "c", "e">> >> }}
    \cup
    {Arguments("dir", <<>>, DefaultLayers, f, FALSE) :
        f \in { << <<"d", "o", "m", "a", "i", "n", ":", "s", "e", "r", "v", "i", "c", "e">>, <<"d", "o", "m", "a", "i", "n", ":", "a", "d", "a", "p", "t", "o", "r">> >>,
                << <<"d", "o", "m", "a", "i", "n", ":", "r", "o", "o", "t", ",", "o", "t", "h", "e", "r">>, <<"r", "o", "o", "t", ":", "a", "d", "a", "p", "t", "o", "r">>, <<"o", "t", "h", "e", "r", ":", "a", "d", "a", "p", "t", "o", "r">> >> }}

\* command lines with a fatal configuration error
InvalidArgs ==
    {Arguments(k, <<>>, DefaultLayers, <<>>, FALSE) : k \in {"missing", "file"}}
    \cup
    {Arguments(k, <<>>, DefaultLayers, f, FALSE) :
        k \in {"dir", "missing"},
        f \in { << <<"d", "o", "m", "a", "i", "n">> >>,
                << <<" ", ":", "a", "d", "a", "p", "t", "o", "r">> >>,
                << <<"d", "o", "m", "a", "i", "n", ":", " ", ",", " ">> >>,
                << <<"d", "o", "m", "a", "i", "n", ":", "a", "d", "a", "p", "t", "o", "r">>, <<"x">> >> }}

ArgsUniverse == ValidArgs \cup InvalidArgs

\* the files rglob("*.py") can find under the root
Paths ==
    { RootDir \o <<"/">> \o rel :
        rel \in { <<"m", ".", "p", "y">>,
                  <<"d", "o", "m", "a", "i", "n", "/", "a", ".", "p", "y">>,
                  <<"a", "d", "a", "p", "t", "o", "r", "/", "b", ".", "p", "y">>,
                  <<"u", "t", "i", "l", "/", "u", ".", "p", "y">>,
                  <<"d", "o", "m", "a", "i", "n", "/", "t", "e", "s", "t", "s", "/", "t", ".", "p", "y">>,
                  <<"d", "o", "m", "a", "i", "n", "/", "_", "_", "p", "y", "c", "a", "c", "h", "e", "_", "_", "/", "c", ".", "p", "y">> } }

\* (lineno, col_offset) of a lone statement: at top level, or nested in a block
Positions == { <<1, 0>>, <<2, 4>> }

\* statements: import a / import a, b / from m import x / from ..m import x / from . import m
Statements(pos) ==
    { Import(<<m>>, pos[1], pos[2]) : m \in { <<"p", "k", "g", ".", "a", "d", "a", "p", "t", "o", "r", ".", "x">>, <<"p", "k", "g", "x", ".", "a", "d", "a", "p", "t", "o", "r">> } }
    \cup
    { Import(<<<<"p", "k", "g", ".", "a", "d", "a", "p", "t", "o", "r", ".", "x">>, <<"p", "k", "g", ".", "s", "e", "r", "v", "i", "c", "e">>>>, pos[1], pos[2]),
      Import(<<<<"p", "k", "g">>, <<"o", "s">>>>, pos[1], pos[2]),
      Import(<<<<"p", "k", "g", ".", "u", "t", "i", "l", ".", "h">>, <<"a", "d", "a", "p", "t", "o", "r">>>>, pos[1], pos[2]) }
    \cup
    { ImportFrom(Module(m), l, <<<<"x">>>>, pos[1], pos[2]) :
        m \in { <<"p", "k", "g", ".", "s", "e", "r", "v", "i", "c", "e">>, <<"a", "d", "a", "p", "t", "o", "r">> }, l \in {0, 2} }
    \cup
    { ImportFrom(NoModule, 1, <<<<"a", "d", "a", "p", "t", "o", "r">>>>, pos[1], pos[2]),
      Expr(pos[1], pos[2]) }

\* statements used in trees of two nodes
PairStatements(pos) ==
    { Import(<<<<"p", "k", "g", ".", "a", "d", "a", "p", "t", "o", "r", ".", "x">>>>, pos[1], pos[2]),
      ImportFrom(Module(<<"p", "k", "g", ".", "s", "e", "r", "v", "i", "c", "e">>), 0, <<<<"x">>>>, pos[1], pos[2]),
      ImportFrom(Module(<<"a", "d", "a", "p", "t", "o", "r">>), 2, <<<<"x">>>>, pos[1], pos[2]) }

\* trees, as node sequences in ast.walk order, which is breadth-first: in a tree
\* of two statements the one walked first is at top level on line 3 and the
\* other is nested in a block that opens on line 1
Trees ==
    { <<>> }
    \cup { <<n>> : n \in UNION { Statements(pos) : pos \in Positions } }
    \cup { <<a, b>> : a \in PairStatements(<<3, 0>>), b \in PairStatements(<<2, 4>>) }

Source(tree) == [kind |-> "source", tree |-> tree]

SyntaxError(lineno, offset, msg) ==
    [kind |-> "syntax_error", lineno |-> lineno, offset |-> offset, msg |-> msg]

Undecodable == [kind |-> "undecodable"]

\* what read_text and ast.parse can meet in a file
Contents ==
    { Source(t) : t \in Trees }
    \cup { SyntaxError(0, 0, "invalid syntax"),
           SyntaxError(3, 7, "invalid syntax") }
    \cup { Undecodable }

NoFile == [file_path |-> <<>>, content |-> [kind |-> "none"], result |-> <<>>]

(***************************************************************************)
(* The run of main()                                                       *)
(***************************************************************************)
Init ==
    /\ pc = "start"
    /\ args \in ArgsUniverse
    /\ package_name = <<>>
    /\ layer_names = {}
    /\ forbid = EmptyDict
    /\ visited = {}
    /\ cur = NoFile
    /\ all_violations = <<>>
    /\ stdout = <<>>
    /\ status = -1

\* "if not forbid": the default policy
ForbidInEffect(parsed) == IF DOMAIN parsed = {} THEN DefaultForbid ELSE parsed

\* main(), lines 187-200
Configure ==
    /\ pc = "start"
    /\ IF args.root_kind # "dir"
       THEN /\ pc' = "aborted"
            /\ status' = ExitStatus([kind |-> "SystemExit",
                                     value |-> "--root must be an existing directory"])
            /\ UNCHANGED <<package_name, layer_names, forbid>>
       ELSE LET parsed == _parse_forbid_entries(args.forbid)
            IN  IF parsed.raised # None
                THEN /\ pc' = "aborted"
                     /\ status' = ExitStatus([kind |-> "uncaught", value |-> parsed.raised])
                     /\ UNCHANGED <<package_name, layer_names, forbid>>
                ELSE /\ pc' = "scan"
                     /\ package_name' = (IF Strip(args.package_name) # <<>>
                                         THEN Strip(args.package_name) ELSE RootName)
                     /\ layer_names' = Range(_parse_csv(args.layers))
                     /\ forbid' = ForbidInEffect(parsed.value)
                     /\ UNCHANGED status
    /\ UNCHANGED <<args, visited, cur, all_violations, stdout>>

\* _iter_python_files: rglob meets a path the filter drops
SkipFile ==
    /\ pc = "scan"
    /\ Cardinality(visited) < MaxFiles
    /\ \E path \in Paths \ visited :
          /\ ~Yielded(path, args.include_tests)
          /\ visited' = visited \cup {path}
    /\ UNCHANGED <<pc, args, package_name, layer_names, forbid, cur,
                   all_violations, stdout, status>>

\* one iteration of the loop of main(), lines 203-212
ScanFile ==
    /\ pc = "scan"
    /\ Cardinality(visited) < MaxFiles
    /\ \E path \in Paths \ visited, content \in Contents :
          /\ Yielded(path, args.include_tests)
          /\ visited' = visited \cup {path}
          /\ LET r == _violations_for_file(RootDir, path, content,
                                           package_name, layer_names, forbid)
             IN  IF r.raised # None
                 THEN /\ pc' = "crashed"
                      /\ status' = ExitStatus([kind |-> "uncaught", value |-> r.raised])
                      /\ cur' = [file_path |-> path, content |-> content, result |-> <<>>]
                      /\ UNCHANGED all_violations
                 ELSE /\ cur' = [file_path |-> path, content |-> content,
                                 result |-> r.value]
                      /\ all_violations' = all_violations \o r.value
                      /\ UNCHANGED <<pc, status>>
    /\ UNCHANGED <<args, package_name, layer_names, forbid, stdout>>

\* what main() prints and returns once the loop is over
Emitted(violations) ==
    IF violations = <<>> THEN <<OkLine>>
    ELSE LET ordered == SortedByKey(violations)
         IN  <<HeaderLine>> \o [i \in 1..Len(ordered) |-> ViolationLine(ordered[i])]

\* fault injection: the number of violations is returned
Returned_Count(violations) == Len(violations)

Returned(violations) == IF violations = <<>> THEN 0 ELSE 1

\* main(), lines 214-222: discovery is exhausted
Report ==
    /\ pc = "scan"
    /\ pc' = "done"
    /\ stdout' = Emitted(all_violations)
    /\ status' = ExitStatus([kind |-> "return", value |-> Returned(all_violations)])
    /\ UNCHANGED <<args, package_name, layer_names, forbid, visited, cur, all_violations>>

Next == Configure \/ SkipFile \/ ScanFile \/ Report

Spec == Init /\ [][Next]_vars

(***************************************************************************)
(* Vocabulary of the properties, stated on paths and module texts          *)
(* without the classifier                                                  *)
(***************************************************************************)
Scanning == pc \in {"scan", "done", "crashed"}

\* the declared layers that are not pseudo-layers
DeclaredLayers == layer_names \ Reserved

\* path lies under the top-level directory dir of the scanned root
InLayerDir(path, dir) == StartsWith(path, RootDir \o <<"/">> \o dir \o <<"/">>)

\* module m is the layer package <package>.<layer> or lies under it
ResolvesTo(m, layer) ==
    \/ m = package_name \o <<".">> \o layer
    \/ StartsWith(m, package_name \o <<".">> \o layer \o <<".">>)

\* the forbidden set of a layer; no entry forbids nothing
ForbiddenSet(layer) == IF layer \in DOMAIN forbid THEN forbid[layer] ELSE {}

Collected == Range(all_violations)

\* the collected violations of one file, in collection order
ViolationsOf(path) ==
    LET OfPath(v) == v.file_path = path IN SelectSeq(all_violations, OfPath)

\* the current file was read and parsed
CurParsed == Scanning /\ cur.content.kind = "source"

CurImports == IF CurParsed THEN Range(_iter_imports(cur.content.tree)) ELSE {}

\* some collected violation of the current file stems from the import imp
Flagged(imp) ==
    \E v \in Collected :
        /\ v.file_path = cur.file_path
        /\ v.imported_module = imp[1]
        /\ v.lineno = imp[2]
        /\ v.col_offset = imp[3]

(***************************************************************************)
(* C1: for a file of a declared, non-reserved layer A and an import        *)
(* that resolves to a declared, non-reserved layer B (B = A included),     *)
(* the import is collected as a violation [A -> B] exactly when B is in    *)
(* the forbidden set of A under the mapping in effect; a layer without an  *)
(* entry forbids nothing.                                                  *)
(***************************************************************************)
C1_ViolationIffForbidden ==
    \A A \in DeclaredLayers, B \in DeclaredLayers, imp \in CurImports :
        (InLayerDir(cur.file_path, A) /\ ResolvesTo(imp[1], B))
        => ( (\E v \in Collected :
                 /\ v.file_path = cur.file_path
                 /\ v.file_layer = A
                 /\ v.imported_layer = B
                 /\ v.imported_module = imp[1]
                 /\ v.lineno = imp[2]
                 /\ v.col_offset = imp[3]
                 /\ v.reason = ForbiddenReason)
             <=> B \in ForbiddenSet(A) )

\* an adaptor file importing an adaptor module under the entry "adaptor:adaptor"
C1_Witness ==
    /\ CurParsed
    /\ InLayerDir(cur.file_path, adaptor)
    /\ adaptor \in ForbiddenSet(adaptor)
    /\ \E imp \in CurImports : ResolvesTo(imp[1], adaptor) /\ Flagged(imp)

(***************************************************************************)
(* C2: a file that fails to parse yields exactly one violation for that    *)
(* file, with imported layer other and a reason holding the parse failure  *)
(* detail, and no import-level violation.                                  *)
(***************************************************************************)
CurSyntaxError == Scanning /\ cur.content.kind = "syntax_error"

OneParseViolation ==
    /\ Len(ViolationsOf(cur.file_path)) = 1
    /\ LET v == ViolationsOf(cur.file_path)[1]
       IN  /\ v.imported_layer = other
           /\ v.imported_module = ParseErrorModule
           /\ v.reason = "SyntaxError: " \o cur.content.msg
           /\ v.reason # ForbiddenReason

\* the claim as stated, for every file
C2_EveryUnparseableFile == CurSyntaxError => OneParseViolation

\* the claim for the files of a declared, non-reserved layer
C2_UnparseableLayerFile ==
    (CurSyntaxError /\ \E A \in DeclaredLayers : InLayerDir(cur.file_path, A))
    => OneParseViolation

C2_Witness ==
    /\ CurSyntaxError
    /\ InLayerDir(cur.file_path, domain)
    /\ domain \in DeclaredLayers
    /\ Len(ViolationsOf(cur.file_path)) = 1

(***************************************************************************)
(* C3: a file directly in the root, or under a top-level directory that    *)
(* is not a declared layer, never adds a violation, whatever its content   *)
(* and whatever the forbidden mapping holds.                               *)
(***************************************************************************)
OutsideLayers(path) == ~\E A \in layer_names : InLayerDir(path, A)

C3_NoViolationOutsideLayers ==
    \A path \in visited : OutsideLayers(path) => ViolationsOf(path) = <<>>

\* an unparseable or layer-importing file outside the layers has been scanned,
\* with rules that name its pseudo-layer as a source
C3_Witness ==
    /\ pc = "scan"
    /\ cur.file_path \in visited
    /\ OutsideLayers(cur.file_path)
    /\ Yielded(cur.file_path, args.include_tests)
    /\ \/ cur.content.kind = "syntax_error"
       \/ /\ cur.content.kind = "source"
          /\ other \in DOMAIN forbid
          /\ \E imp \in CurImports : ResolvesTo(imp[1], adaptor)

(***************************************************************************)
(* C4: an import whose module path is empty, is the package name itself,   *)
(* is not under "<package>." or whose first segment under the package is   *)
(* not a declared layer never produces a violation, even when the mapping  *)
(* names root or other.                                                    *)
(***************************************************************************)
Unclassified(m) == ~\E B \in layer_names : ResolvesTo(m, B)

\* the second conjunct applies the loop body to an empty module text, which
\* no tree yields
C4_NoViolationForUnclassifiedImport ==
    /\ \A imp \in CurImports : Unclassified(imp[1]) => ~Flagged(imp)
    /\ Scanning =>
          \A A \in layer_names \cup DOMAIN forbid :
              ImportViolations(cur.file_path, A, << <<>>, 1, 0 >>,
                               package_name, layer_names, forbid) = <<>>

\* a domain file imports the package itself while domain forbids root and other
C4_Witness ==
    /\ CurParsed
    /\ InLayerDir(cur.file_path, domain)
    /\ {root, other} \subseteq ForbiddenSet(domain)
    /\ \E imp \in CurImports : imp[1] = package_name
    /\ \E imp \in CurImports : ~StartsWith(imp[1], package_name)

(***************************************************************************)
(* C5: in a run that reaches scanning, every key and every destination of  *)
(* the forbidden mapping in effect is a declared layer name.               *)
(***************************************************************************)
\* the claim as stated
C5_MappingWithinDeclaredLayers ==
    Scanning =>
        /\ DOMAIN forbid \subseteq layer_names
        /\ \A k \in DOMAIN forbid : forbid[k] \subseteq layer_names

Trimmed(name) == name # <<>> /\ name[1] # " " /\ name[Len(name)] # " "

\* what loading does guarantee: the default policy without entries, else
\* trimmed non-empty names with at least one destination each
C5_MappingWellFormed ==
    Scanning =>
        /\ args.forbid = <<>> => forbid = DefaultForbid
        /\ \A k \in DOMAIN forbid :
              /\ Trimmed(k)
              /\ forbid[k] # {}
              /\ \A dst \in forbid[k] : Trimmed(dst) /\ ~Contains(dst, ",")

\* the entry "domain: adaptor ,service" has been loaded
C5_Witness ==
    /\ pc = "scan"
    /\ args.forbid # <<>>
    /\ \E i \in 1..Len(args.forbid) : Contains(args.forbid[i], " ")
    /\ domain \in DOMAIN forbid
    /\ forbid[domain] = {adaptor, service}

(***************************************************************************)
(* C6: a fatal configuration error (root missing or not a directory; a     *)
(* forbid entry without ':', with an empty source, or without a non-empty  *)
(* destination) aborts before scanning with a status that is neither 0     *)
(* nor 1.                                                                  *)
(***************************************************************************)
FirstColon(entry) ==
    CHOOSE i \in 1..Len(entry) : entry[i] = ":" /\ \A j \in 1..(i - 1) : entry[j] # ":"

Malformed(entry) ==
    \/ \A i \in 1..Len(entry) : entry[i] # ":"
    \/ \A i \in 1..(FirstColon(entry) - 1) : entry[i] = " "
    \/ \A i \in (FirstColon(entry) + 1)..Len(entry) : entry[i] \in {" ", ","}

FatalConfiguration ==
    \/ args.root_kind # "dir"
    \/ \E i \in 1..Len(args.forbid) : Malformed(args.forbid[i])

AbortedBeforeScanning ==
    /\ pc = "aborted"
    /\ visited = {}
    /\ cur = NoFile
    /\ all_violations = <<>>
    /\ stdout = <<>>

\* the claim as stated
C6_AbortStatusNot0Nor1 ==
    (pc # "start" /\ FatalConfiguration)
    => (AbortedBeforeScanning /\ status \notin {0, 1})

\* the abort happens, before scanning, and its status is 1
C6_AbortStatus1 ==
    (pc # "start" /\ FatalConfiguration) => (AbortedBeforeScanning /\ status = 1)

\* an entry list with a malformed entry under an existing root has aborted the run
C6_Witness ==
    /\ pc = "aborted"
    /\ args.root_kind = "dir"
    /\ \E i \in 1..Len(args.forbid) : Malformed(args.forbid[i])

(***************************************************************************)
(* C7: the emitted listing is strictly ordered by (file path, line,        *)
(* column), no two emitted violations share that key, and the listing is   *)
(* the same for every discovery order.                                     *)
(***************************************************************************)
\* the violation lines of the output, after the header
Listing == IF pc = "done" /\ status = 1 THEN Tail(stdout) ELSE <<>>

\* the same lines in collection order
CollectedLines == [i \in 1..Len(all_violations) |-> ViolationLine(all_violations[i])]

LineKey(line) ==
    <<line.violation.location.file_path, line.violation.location.lineno,
      line.violation.location.col>>

LineKeyLess(a, b) ==
    LET ka == LineKey(a)
        kb == LineKey(b)
    IN  \/ StrLess(ka[1], kb[1])
        \/ ka[1] = kb[1] /\ ka[2] < kb[2]
        \/ ka[1] = kb[1] /\ ka[2] = kb[2] /\ ka[3] < kb[3]

WithKey(lines, key) ==
    LET HasKey(line) == LineKey(line) = key IN SelectSeq(lines, HasKey)

\* the orders in which discovery can produce the paths it did produce
DiscoveryOrders ==
    {o \in [1..Cardinality(visited) -> visited] :
        \A i, j \in 1..Cardinality(visited) : i # j => o[i] # o[j]}

\* what the loop collects when the files come in the given order
RECURSIVE CollectedInOrder(_, _)
CollectedInOrder(order, i) ==
    IF i > Len(order) THEN <<>>
    ELSE ViolationsOf(order[i]) \o CollectedInOrder(order, i + 1)

\* the lines of one key are those collected for it, in the order the file's
\* walk produced them, and every discovery order of the same files leads to
\* the output that was printed
ListingFixedByFiles ==
    /\ Len(Listing) = Len(all_violations)
    /\ \A i \in 1..Len(CollectedLines) :
          WithKey(Listing, LineKey(CollectedLines[i]))
            = WithKey(CollectedLines, LineKey(CollectedLines[i]))
    /\ \A order \in DiscoveryOrders : Emitted(CollectedInOrder(order, 1)) = stdout

\* the claim as stated
C7_StrictOrder ==
    (pc = "done" /\ status = 1) =>
        /\ \A i \in 1..Len(Listing), j \in 1..Len(Listing) :
              i < j => LineKeyLess(Listing[i], Listing[j])
        /\ ListingFixedByFiles

\* ascending with ties allowed, ties in walk order
C7_AscendingStableOrder ==
    (pc = "done" /\ status = 1) =>
        /\ \A i \in 1..Len(Listing), j \in 1..Len(Listing) :
              i < j => ~LineKeyLess(Listing[j], Listing[i])
        /\ ListingFixedByFiles

\* two files discovered against path order, one of them with a two-name import
C7_Witness ==
    /\ pc = "done"
    /\ status = 1
    /\ \E i \in 1..Len(all_violations), j \in 1..Len(all_violations) :
          i < j /\ StrLess(all_violations[j].file_path, all_violations[i].file_path)
    /\ \E i \in 1..Len(Listing), j \in 1..Len(Listing) :
          /\ i < j
          /\ LineKey(Listing[i]) = LineKey(Listing[j])
          /\ Listing[i] # Listing[j]

(***************************************************************************)
(* C8: after a completed scan, an empty collection gives the single        *)
(* success line and status 0; otherwise a header line, one rendered line   *)
(* per collected violation, and status 1.  An empty root gives status 0.   *)
(***************************************************************************)
C8_TwoOutcomes ==
    pc = "done" =>
        /\ all_violations = <<>> => (stdout = <<OkLine>> /\ status = 0)
        /\ all_violations # <<>> =>
              /\ status = 1
              /\ Len(stdout) = 1 + Len(all_violations)
              /\ stdout[1] = HeaderLine
              /\ \A i \in 2..Len(stdout) :
                    \E j \in 1..Len(all_violations) :
                        stdout[i] = ViolationLine(all_violations[j])
        /\ visited = {} => status = 0

C8_Witness ==
    /\ pc = "done"
    /\ Len(all_violations) = 2
    /\ status = 1
    /\ Len(stdout) = 3

(***************************************************************************)
(* C9: once the configuration is valid, the run processes every            *)
(* discovered file and then reports; no file terminates the scan.          *)
(***************************************************************************)
\* the claim as stated: a run that left Configure is scanning or has reported
C9_NoFileTerminatesTheScan ==
    (pc # "start" /\ ~FatalConfiguration) => pc \in {"scan", "done"}

(***************************************************************************)
(* C10: for a from-import the outcome depends only on the module text      *)
(* after the leading dots: the relative level is not resolved and the      *)
(* imported names play no part, so "from ..adaptor import x" and           *)
(* "from . import adaptor" in a domain file produce no violation.          *)
(***************************************************************************)
CurFromImports ==
    IF CurParsed
    THEN {cur.content.tree[i] : i \in {j \in 1..Len(cur.content.tree) :
                                          cur.content.tree[j].type = "ImportFrom"}}
    ELSE {}

AtNode(node) ==
    \E v \in Collected :
        /\ v.file_path = cur.file_path
        /\ v.lineno = node.lineno
        /\ v.col_offset = node.col_offset

C10_FromImportByModuleTextOnly ==
    \A A \in DeclaredLayers, node \in CurFromImports :
        InLayerDir(cur.file_path, A)
        => ( AtNode(node)
             <=> /\ node.module # NoModule
                 /\ \E B \in DeclaredLayers :
                       ResolvesTo(node.module[1], B) /\ B \in ForbiddenSet(A) )

\* "from ..adaptor import x" in a domain file, with domain forbidding adaptor
C10_Witness ==
    /\ CurParsed
    /\ InLayerDir(cur.file_path, domain)
    /\ adaptor \in ForbiddenSet(domain)
    /\ adaptor \in DeclaredLayers
    /\ \E node \in CurFromImports :
          node.level = 2 /\ node.module = Module(adaptor) /\ ~AtNode(node)

====
